---- MODULE Spec2Model ----
(***************************************************************************)
(* State-machine model of the dashboard pages of forestryFrontend:         *)
(*   - AdminCoursesPage   (src/unnamed/part_000, lines 29-326)             *)
(*   - AdminDashboardPage (src/unnamed/part_000, lines 644-826)            *)
(*   - StudentDashboard   (src/app/(student-dashboard)/student/page.tsx)   *)
(* One page is mounted per behaviour (variable page).  Every event handler *)
(* is one action; the part of an async handler that runs after its await   *)
(* is the action that delivers the response of the request it awaited.     *)
(***************************************************************************)
EXTENDS Integers, Sequences, FiniteSets, TLC

\* ------------------------------------------------------------------ bounds
\* Mutation requests (POST/PUT/DELETE) one behaviour of the course page may
\* issue.
MaxMut == 2
\* Mutation requests one behaviour of the dashboard may issue.
MaxAnnMut == 2
\* Field onChange events one behaviour may deliver to a form.
MaxEdits == 2

\* ------------------------------------------------------------- JS values
Null == "null"

\* `if (x)` on a string | null.
Truthy(s) == s # Null /\ s # ""

\* A JS number: NaN or an integer value.
Num(k) == [nan |-> FALSE, val |-> k]
NaN == [nan |-> TRUE, val |-> 0]
isNaN(x) == x.nan

\* Number(e.target.value) for the texts delivered to the credit-units
\* onChange: the cleared control and a text that is no number (a browser's
\* number input delivers "" for one; the handler guards against NaN all the
\* same, and the text exercises that guard).
CreditTexts == {"", "abc"}
Number(text) ==
  CASE text = ""  -> Num(0)
    [] text = "3" -> Num(3)
    [] OTHER      -> NaN

\* A foreign-key field: `string | {_id, name}`.
StrV(s) == [typeof |-> "string", str |-> s, _id |-> "", name |-> ""]
ObjV(i, nm) == [typeof |-> "object", str |-> "", _id |-> i, name |-> nm]

\* ------------------------------------------------------------ the backend
\* Reference lists served by GET /lecturers and GET /departments.
LecturersDB == << [_id |-> "l1", name |-> "Dr A"] >>
DepartmentsDB == << [_id |-> "d1", name |-> "Forestry"] >>

\* The collection behind GET /courses when the page mounts: one record, with
\* a populated lecturer and department and an identifier string for a level.
CoursesDB0 ==
  << [_id |-> "c1", courseCode |-> "FOR101", courseTitle |-> "Ecology",
      creditUnits |-> Num(3), lecturer |-> ObjV("l1", "Dr A"),
      level |-> StrV("v1"), semester |-> "First Semester",
      department |-> ObjV("d1", "Forestry")] >>

AnnouncementsDB0 ==
  << [_id |-> "a1", title |-> "Exams", message |-> "Start Monday"] >>

\* useState<Stats>({ totalUsers: 0, ... }) and what GET /admin/stats serves.
Stats0 ==
  [totalUsers |-> 0, totalDepartments |-> 0, totalCourses |-> 0,
   totalAnnouncements |-> 0, error |-> ""]
StatsDB ==
  [totalUsers |-> 5, totalDepartments |-> 1, totalCourses |-> 1,
   totalAnnouncements |-> 1, error |-> ""]

\* The JSON body of an error answer, { error: ... }: what `await res.json()`
\* yields when the backend answers with a non-success status.  It is no list
\* and no Stats; it is shaped like them here so that it can be held in
\* their place.
BackendError == "Unauthorized"
ErrorList == << [_id |-> Null, title |-> "", message |-> BackendError] >>
ErrorStats == [Stats0 EXCEPT !.error = BackendError]

Pages == {"courses", "admin", "student"}

VARIABLES
  page,          \* the page this behaviour mounts
  mounted,       \* its mount effects have run
  hasToken,      \* localStorage holds the page's token
  route,         \* where the router points
  \* AdminCoursesPage state
  courses, lecturers, departments, isModalOpen, loading,
  courseCode, courseTitle, creditUnits, lecturer, level, semester, department,
  editId,
  \* AdminDashboardPage / StudentDashboard state
  stats, announcements, title, message, submitting, annEditId, dialogOpen,
  abandoned,     \* an announcement was picked for edit and the dialog dismissed
  studentLoading,
  \* the network and the backend
  net,           \* requests in flight
  muts,          \* mutation requests issued so far
  edits,         \* field onChange events delivered so far
  db,            \* the backend's course collection
  annDb,         \* the backend's announcement collection
  lastFetch,     \* the most recently issued GET /courses: settled or not,
                 \* and, once settled, how and with what collection
  \* what the last step was and what it showed the user
  op, notice

formVars == << courseCode, courseTitle, creditUnits, lecturer, level, semester,
               department, editId >>
coursesVars == << courses, lecturers, departments, isModalOpen, loading, formVars >>
annVars == << stats, announcements, title, message, submitting, annEditId,
              dialogOpen, abandoned, studentLoading >>
vars == << page, mounted, hasToken, route, coursesVars, annVars,
           net, muts, edits, db, annDb, lastFetch, op, notice >>

\* ---------------------------------------------------------- notifications
NoNotice == [via |-> "none", msg |-> ""]
Notice(via, msg) == [via |-> via, msg |-> msg]
\* Channels the user sees (console.error is not one).
UserFacing == {"toast.error", "toast.success", "alert"}

\* The step just taken: the handler (or continuation) that ran, the record id
\* it was about, and a flag (the prompt's answer, or whether it went through).
Op(name, id, flag) == [name |-> name, id |-> id, flag |-> flag]
\* Steps the formulas need not tell apart by name.
Silent == Op("", Null, FALSE)

\* op and notice describe one step and are read in the state that step leaves.
\* No handler reads them.  Before the next handler runs they are dropped (the
\* toast has expired, the alert box has been dismissed), so that a state of
\* the page is not told apart by the step that led to it.
Quiet == op = Silent /\ notice = NoNotice

\* --------------------------------------------------------------- requests
EmptyBody ==
  [courseCode |-> "", courseTitle |-> "", creditUnits |-> Num(0),
   lecturer |-> StrV(""), level |-> StrV(""), semester |-> "",
   department |-> StrV(""), title |-> "", message |-> ""]

\* A request in flight.  n tells requests of one kind apart: a mutation's
\* serial number, a GET's slot.  data, of a GET /courses, holds every version
\* of the collection the backend has held since the request was issued: the
\* backend answers at some moment of the flight, with the version it then holds.
Req(n, method, url, id, body) ==
  [n |-> n, method |-> method, url |-> url, id |-> id, body |-> body,
   data |-> {}]

\* The slot of a GET issued now: one above the slots of the GETs in flight on
\* url, so that of two GETs in flight the later issued has the higher slot.
Slot(url) ==
  LET used == {r.n : r \in {q \in net : q.url = url /\ q.method = "GET"}}
  IN IF used = {} THEN 1
     ELSE 1 + CHOOSE m \in used : \A k \in used : k <= m

\* The most recently issued GET /courses while it is in flight, and once its
\* try block or its catch block has run.
Pending == [settled |-> FALSE, ok |-> FALSE, data |-> << >>]
Settled(ok, data) ==
  [settled |-> TRUE, ok |-> ok, data |-> IF ok THEN data ELSE << >>]

SeqToSet(s) == {s[i] : i \in 1..Len(s)}
Ids(s) == {s[i]._id : i \in 1..Len(s)}

\* ------------------------------------------------------ AdminCoursesPage
\* `undefined` for openModal's optional parameter.
NoCourse ==
  [_id |-> Null, courseCode |-> "", courseTitle |-> "", creditUnits |-> Num(0),
   lecturer |-> StrV(""), level |-> StrV(""), semester |-> "",
   department |-> StrV("")]

\* The reference lists are answered before anything else happens on the page:
\* what the page holds afterwards does not depend on when they arrive, and an
\* unanswered list offers the same (empty) options as a failed one.
RefListsPending == \E r \in net : r.url \in {"/lecturers", "/departments"}
CoursesReady == page = "courses" /\ mounted /\ ~RefListsPending

\* The user acts once the list requested on mount has been answered (until
\* then the page shows "Loading..."): a GET /courses in flight before any
\* mutation was issued is that request.
InitialLoad ==
  muts = 0 /\ \E r \in net : r.url = "/courses" /\ r.method = "GET"
UserReady == CoursesReady /\ ~InitialLoad

\* fetchCourses up to its await: setLoading(true) and the GET.
fetchCourses(n, coll) ==
  [Req(n, "GET", "/courses", Null, EmptyBody) EXCEPT !.data = {coll}]
fetchLecturers(n) == Req(n, "GET", "/lecturers", Null, EmptyBody)
fetchDepartments(n) == Req(n, "GET", "/departments", Null, EmptyBody)

\* useEffect(() => { fetchCourses(); fetchLecturers(); fetchDepartments(); }, [])
CoursesMount ==
  /\ Quiet
  /\ page = "courses" /\ ~mounted
  /\ mounted' = TRUE
  /\ loading' = TRUE
  /\ net' = net \cup {fetchCourses(1, db), fetchLecturers(1), fetchDepartments(1)}
  /\ op' = Silent
  /\ notice' = NoNotice
  /\ lastFetch' = Pending
  /\ UNCHANGED << page, hasToken, route, courses, lecturers, departments,
                  isModalOpen, formVars, annVars, muts, edits, db, annDb >>

\* The reference as the record carries it.
KeepRef(f) == f

\* `typeof f === 'object' ? f._id : f`
NormalizeRef(f) == IF f.typeof = "object" THEN StrV(f._id) ELSE f

\* A reset that leaves the editing identifier.
resetFormKeepingId ==
  /\ courseCode' = "" /\ courseTitle' = "" /\ creditUnits' = Num(0)
  /\ lecturer' = StrV("") /\ level' = StrV("") /\ semester' = ""
  /\ department' = StrV("")
  /\ UNCHANGED editId

resetForm ==
  /\ editId' = Null
  /\ courseCode' = ""
  /\ courseTitle' = ""
  /\ creditUnits' = Num(0)
  /\ lecturer' = StrV("")
  /\ level' = StrV("")
  /\ semester' = ""
  /\ department' = StrV("")

\* Closing the modal and leaving the draft as it is.
closeModalOnly ==
  /\ isModalOpen' = FALSE
  /\ UNCHANGED formVars

closeModal ==
  /\ isModalOpen' = FALSE
  /\ resetForm

\* The draft populated with the record's fields as they are.
OpenedFormRaw(course) ==
  /\ editId' = course._id
  /\ courseCode' = course.courseCode
  /\ courseTitle' = course.courseTitle
  /\ creditUnits' = course.creditUnits
  /\ lecturer' = course.lecturer
  /\ level' = course.level
  /\ semester' = course.semester
  /\ department' = course.department

\* The modal's state after openModal(course).
OpenedForm(course) ==
  /\ editId' = course._id
  /\ courseCode' = course.courseCode
  /\ courseTitle' = course.courseTitle
  /\ creditUnits' = course.creditUnits
  /\ lecturer' = NormalizeRef(course.lecturer)
  /\ level' = NormalizeRef(course.level)
  /\ semester' = course.semester
  /\ department' = NormalizeRef(course.department)

\* "Add Course" (course = NoCourse) or a listed course's "Edit"; the list, and
\* with it the Edit buttons, is rendered only while loading is false.  The open
\* modal's overlay (fixed inset-0 z-50) covers the page and its buttons.
openModal(course) ==
  /\ Quiet
  /\ UserReady /\ ~isModalOpen
  /\ course # NoCourse => ~loading
  /\ IF course # NoCourse THEN OpenedForm(course) ELSE resetForm
  /\ isModalOpen' = TRUE
  /\ op' = Op("openModal", course._id, course # NoCourse)
  /\ notice' = NoNotice
  /\ UNCHANGED << page, lastFetch, mounted, hasToken, route, courses, lecturers,
                  departments, loading, annVars, net, muts, edits,
                  db, annDb >>

\* The modal's Cancel button.
Cancel ==
  /\ Quiet
  /\ UserReady /\ isModalOpen
  /\ closeModal
  /\ op' = Op("Cancel", editId, FALSE)
  /\ notice' = NoNotice
  /\ UNCHANGED << page, lastFetch, mounted, hasToken, route, courses, lecturers,
                  departments, loading, annVars, net, muts, edits,
                  db, annDb >>

\* An onChange of one form field; the form is rendered only while the modal is
\* open.
FieldEdit ==
  /\ Quiet
  /\ UserReady /\ isModalOpen
  /\ edits < MaxEdits
  /\ edits' = edits + 1
  /\ op' = Silent
  /\ notice' = NoNotice
  /\ UNCHANGED << page, lastFetch, mounted, hasToken, route, courses, lecturers,
                  departments, isModalOpen, loading, editId, annVars, net,
                  muts, db, annDb >>

setCourseCode(v) ==
  /\ v # courseCode
  /\ FieldEdit
  /\ courseCode' = v
  /\ UNCHANGED << courseTitle, creditUnits, lecturer, level, semester, department >>

setCourseTitle(v) ==
  /\ v # courseTitle
  /\ FieldEdit
  /\ courseTitle' = v
  /\ UNCHANGED << courseCode, creditUnits, lecturer, level, semester, department >>

setCreditUnits(text) ==
  /\ Number(text) # creditUnits
  /\ FieldEdit
  /\ creditUnits' = Number(text)
  /\ UNCHANGED << courseCode, courseTitle, lecturer, level, semester, department >>

setLecturer(v) ==
  /\ StrV(v) # lecturer
  /\ FieldEdit
  /\ lecturer' = StrV(v)
  /\ UNCHANGED << courseCode, courseTitle, creditUnits, level, semester, department >>

setLevel(v) ==
  /\ StrV(v) # level
  /\ FieldEdit
  /\ level' = StrV(v)
  /\ UNCHANGED << courseCode, courseTitle, creditUnits, lecturer, semester, department >>

setSemester(v) ==
  /\ v # semester
  /\ FieldEdit
  /\ semester' = v
  /\ UNCHANGED << courseCode, courseTitle, creditUnits, lecturer, level, department >>

setDepartment(v) ==
  /\ StrV(v) # department
  /\ FieldEdit
  /\ department' = StrV(v)
  /\ UNCHANGED << courseCode, courseTitle, creditUnits, lecturer, level, semester >>

\* The texts and options the form's controls deliver here: the cleared control
\* and one more value of each (of the level and semester selects, the
\* placeholder and the first option).
CodeTexts == {"", "FOR101"}
TitleTexts == {"", "Ecology"}
LecturerOptions == {""} \cup Ids(lecturers)
LevelOptions == {"", "NDI"}
SemesterOptions == {"", "First Semester"}
DepartmentOptions == {""} \cup Ids(departments)

\* `!courseCode || !courseTitle || isNaN(creditUnits)`
SubmitRejected(code, ttl, units) == code = "" \/ ttl = "" \/ isNaN(units)

courseData ==
  [EmptyBody EXCEPT !.courseCode = courseCode, !.courseTitle = courseTitle,
                    !.creditUnits = creditUnits, !.lecturer = lecturer,
                    !.level = level, !.semester = semester,
                    !.department = department]

\* A submit that issues nothing new while the request of the same draft is in
\* flight.
SubmitOnce(n, id, body) ==
  IF \E r \in net : r.url = "/courses" /\ r.method \in {"POST", "PUT"}
                     /\ r.id = (IF Truthy(id) THEN id ELSE Null) /\ r.body = body
  THEN CHOOSE r \in net : r.url = "/courses" /\ r.method \in {"POST", "PUT"}
                          /\ r.id = (IF Truthy(id) THEN id ELSE Null)
                          /\ r.body = body
  ELSE IF Truthy(id) THEN Req(n, "PUT", "/courses", id, body)
       ELSE Req(n, "POST", "/courses", Null, body)

\* `if (editId) axios.put(.../courses/${editId}) else axios.post(.../courses)`
SubmitRequest(n, id, body) ==
  IF Truthy(id) THEN Req(n, "PUT", "/courses", id, body)
                ELSE Req(n, "POST", "/courses", Null, body)

\* ----------------------------------------------- the backend of /courses
NewCourse(r) ==
  [_id |-> "n" \o ToString(r.n), courseCode |-> r.body.courseCode,
   courseTitle |-> r.body.courseTitle, creditUnits |-> r.body.creditUnits,
   lecturer |-> r.body.lecturer, level |-> r.body.level,
   semester |-> r.body.semester, department |-> r.body.department]

Replaced(coll, r) ==
  [i \in 1..Len(coll) |->
     IF coll[i]._id = r.id THEN [NewCourse(r) EXCEPT !._id = r.id] ELSE coll[i]]

Without(coll, id) == SelectSeq(coll, LAMBDA c : c._id # id)

\* The backend can carry out mutation r: a PUT or DELETE needs the record.
Accepts(coll, r) == r.method \in {"PUT", "DELETE"} => r.id \in Ids(coll)

\* The collection after the backend has carried out mutation r.
Applied(coll, r) ==
  CASE r.method = "POST" -> Append(coll, NewCourse(r))
    [] r.method = "PUT" -> Replaced(coll, r)
    [] r.method = "DELETE" -> Without(coll, r.id)
    [] OTHER -> coll

\* The requests left in flight once mutation r is carried out: every GET
\* /courses in flight may yet be answered with the new collection.
StillInFlight(r, coll) ==
  {IF q.url = "/courses" /\ q.method = "GET"
     THEN [q EXCEPT !.data = @ \cup {coll}] ELSE q : q \in net \ {r}}

\* The behaviours explored issue one mutation of their choice; the further
\* ones are submits of a draft whose request is still in flight (the modal
\* stays open, and its submit button enabled, until a request has succeeded).
Mutated == muts > 0
Resubmit == \E r \in net : r = SubmitRequest(r.n, editId, courseData)

\* handleSubmit up to its await.
handleSubmit ==
  /\ Quiet
  /\ UserReady /\ isModalOpen
  /\ IF SubmitRejected(courseCode, courseTitle, creditUnits)
     THEN /\ notice' = Notice("toast.error", "Please fill in all required fields.")
          /\ op' = Op("handleSubmit", editId, FALSE)
          /\ UNCHANGED << net, muts >>
     ELSE /\ muts < MaxMut
          /\ Mutated => Resubmit
          /\ net' = net \cup {SubmitRequest(muts + 1, editId, courseData)}
          /\ muts' = muts + 1
          /\ notice' = NoNotice
          /\ op' = Op("handleSubmit", editId, TRUE)
  /\ UNCHANGED << page, lastFetch, mounted, hasToken, route, coursesVars, annVars, edits,
                  db, annDb >>

\* handleSubmit after its await: the backend carried the request out and the
\* promise resolved ...
handleSubmitResolved(r) ==
  /\ Quiet
  /\ r \in net /\ r.url = "/courses" /\ r.method \in {"POST", "PUT"}
  /\ Accepts(db, r)
  /\ db' = Applied(db, r)
  /\ notice' = Notice("toast.success",
                      IF r.method = "PUT" THEN "Course updated." ELSE "Course created.")
  /\ net' = StillInFlight(r, db') \cup {fetchCourses(Slot("/courses"), db')}
  /\ loading' = TRUE
  /\ closeModal
  /\ op' = Op("handleSubmitSettled", r.id, TRUE)
  /\ lastFetch' = Pending
  /\ UNCHANGED << page, mounted, hasToken, route, courses, lecturers,
                  departments, annVars, muts, edits, annDb >>

\* A catch block that closes the modal as the success path does.
handleSubmitRejectedClosing(r) ==
  /\ Quiet
  /\ r \in net /\ r.url = "/courses" /\ r.method \in {"POST", "PUT"}
  /\ notice' = Notice("toast.error", "Failed to save course.")
  /\ net' = net \ {r}
  /\ closeModal
  /\ op' = Op("handleSubmitSettled", r.id, FALSE)
  /\ UNCHANGED << page, lastFetch, mounted, hasToken, route, courses, lecturers,
                  departments, loading, annVars, muts, edits, db, annDb >>

\* ... or the request failed and the promise rejected (the catch block).
handleSubmitRejected(r) ==
  /\ Quiet
  /\ r \in net /\ r.url = "/courses" /\ r.method \in {"POST", "PUT"}
  /\ notice' = Notice("toast.error", "Failed to save course.")
  /\ net' = net \ {r}
  /\ op' = Op("handleSubmitSettled", r.id, FALSE)
  /\ UNCHANGED << page, lastFetch, mounted, hasToken, route, coursesVars, annVars,
                  muts, edits, db, annDb >>

\* A delete that goes ahead whatever the prompt's answer.
ProceedsUnasked(confirmed) == TRUE

\* `if (!window.confirm(...)) return;`
DeleteProceeds(confirmed) == confirmed

\* handleDelete(id) up to its await, with the prompt's answer.  The Delete
\* buttons are part of the list, rendered only while loading is false.
handleDelete(id, confirmed) ==
  /\ Quiet
  /\ UserReady /\ ~loading /\ ~isModalOpen
  /\ id \in Ids(courses)
  /\ IF DeleteProceeds(confirmed)
     THEN /\ muts < MaxMut /\ ~Mutated
          /\ net' = net \cup {Req(muts + 1, "DELETE", "/courses", id, EmptyBody)}
          /\ muts' = muts + 1
     ELSE UNCHANGED << net, muts >>
  /\ op' = Op("handleDelete", id, confirmed)
  /\ notice' = NoNotice
  /\ UNCHANGED << page, lastFetch, mounted, hasToken, route, coursesVars, annVars, edits,
                  db, annDb >>

handleDeleteResolved(r) ==
  /\ Quiet
  /\ r \in net /\ r.url = "/courses" /\ r.method = "DELETE"
  /\ Accepts(db, r)
  /\ db' = Applied(db, r)
  /\ notice' = Notice("toast.success", "Course deleted.")
  /\ net' = StillInFlight(r, db') \cup {fetchCourses(Slot("/courses"), db')}
  /\ loading' = TRUE
  /\ op' = Op("handleDeleteSettled", r.id, TRUE)
  /\ lastFetch' = Pending
  /\ UNCHANGED << page, mounted, hasToken, route, courses, lecturers,
                  departments, isModalOpen, formVars, annVars, muts, edits,
                  annDb >>

handleDeleteRejected(r) ==
  /\ Quiet
  /\ r \in net /\ r.url = "/courses" /\ r.method = "DELETE"
  /\ notice' = Notice("toast.error", "Failed to delete course.")
  /\ net' = net \ {r}
  /\ op' = Op("handleDeleteSettled", r.id, FALSE)
  /\ UNCHANGED << page, lastFetch, mounted, hasToken, route, coursesVars, annVars,
                  muts, edits, db, annDb >>

\* What a settled load does to the list it loads: setX(res.data) on success,
\* nothing in the catch block.
Loaded(list, ok, data) == IF ok THEN data ELSE list

\* fetchCourses after its await: try / catch / finally.
fetchCoursesSettled(r, ok, data) ==
  /\ Quiet
  /\ CoursesReady
  /\ r \in net /\ r.url = "/courses" /\ r.method = "GET"
  /\ data \in r.data
  /\ courses' = Loaded(courses, ok, data)
  /\ notice' = IF ok THEN NoNotice
               ELSE Notice("toast.error", "Failed to fetch courses.")
  /\ loading' = FALSE
  /\ net' = net \ {r}
  /\ op' = Op("fetchCourses", Null, ok)
  /\ lastFetch' = IF ~lastFetch.settled /\ (\A q \in net : q.url = "/courses" /\ q.method = "GET" => q.n <= r.n)
                  THEN Settled(ok, data) ELSE lastFetch
  /\ UNCHANGED << page, mounted, hasToken, route, lecturers, departments,
                  isModalOpen, formVars, annVars, muts, edits, db, annDb >>

\* fetchLecturers / fetchDepartments after the await.
fetchLecturersSettled(r, ok) ==
  /\ Quiet
  /\ r \in net /\ r.url = "/lecturers"
  /\ lecturers' = Loaded(lecturers, ok, LecturersDB)
  /\ notice' = IF ok THEN NoNotice
               ELSE Notice("toast.error", "Failed to fetch lecturers.")
  /\ net' = net \ {r}
  /\ op' = Op("fetchLecturers", Null, ok)
  /\ UNCHANGED << page, lastFetch, mounted, hasToken, route, courses, departments,
                  isModalOpen, loading, formVars, annVars, muts, edits, db,
                  annDb >>

fetchDepartmentsSettled(r, ok) ==
  /\ Quiet
  /\ r \in net /\ r.url = "/departments"
  /\ departments' = Loaded(departments, ok, DepartmentsDB)
  /\ notice' = IF ok THEN NoNotice
               ELSE Notice("toast.error", "Failed to fetch departments.")
  /\ net' = net \ {r}
  /\ op' = Op("fetchDepartments", Null, ok)
  /\ UNCHANGED << page, lastFetch, mounted, hasToken, route, courses, lecturers,
                  isModalOpen, loading, formVars, annVars, muts, edits, db,
                  annDb >>

\* ---------------------------------------------------- AdminDashboardPage
\* How a fetch() settles: "ok" (a 2xx answer with a JSON body), "http" (a
\* non-success status with a JSON error body), "nojson" (a non-success status
\* whose body is not JSON, so that res.json() throws) or "throw" (fetch itself
\* rejects: no answer).
Outcomes == {"ok", "http", "nojson", "throw"}

AdminReady == page = "admin" /\ mounted /\ route = "admin"

\* A mount effect that leaves the route alone.
NoRedirect == route

\* `if (!token) router.replace("/login")` (router.push on the student page).
Redirect == IF hasToken THEN route ELSE "/login"

\* Both mount effects: the token check, then fetchStats() and
\* fetchAnnouncements() up to their awaits.
AdminMount ==
  /\ Quiet
  /\ page = "admin" /\ ~mounted
  /\ mounted' = TRUE
  /\ route' = Redirect
  /\ net' = net \cup {Req(1, "GET", "/admin/stats", Null, EmptyBody),
                      Req(1, "GET", "/announcements", Null, EmptyBody)}
  /\ op' = Silent
  /\ notice' = NoNotice
  /\ UNCHANGED << page, lastFetch, hasToken, coursesVars, annVars, muts, edits, db, annDb >>

\* What `const data = await res.json(); setX(data)` inside try/catch leaves
\* in the state it loads: the body whenever one parses, whatever the status.
Fetched(held, outcome, body, errorBody) ==
  CASE outcome = "ok" -> body
    [] outcome = "http" -> errorBody
    [] OTHER -> held

\* What the catch block of a dashboard load shows.
LoadNotice(outcome, msg) ==
  IF outcome \in {"nojson", "throw"} THEN Notice("console.error", msg)
  ELSE NoNotice

fetchStatsSettled(r, outcome) ==
  /\ Quiet
  /\ page = "admin"
  /\ r \in net /\ r.url = "/admin/stats"
  /\ stats' = Fetched(stats, outcome, StatsDB, ErrorStats)
  /\ notice' = LoadNotice(outcome, "Failed to fetch stats:")
  /\ net' = net \ {r}
  /\ op' = Op("fetchStats", Null, outcome = "ok")
  /\ UNCHANGED << page, lastFetch, mounted, hasToken, route, coursesVars, announcements,
                  title, message, submitting, annEditId, dialogOpen, abandoned,
                  studentLoading, muts, edits, db, annDb >>

fetchAnnouncementsSettled(r, outcome) ==
  /\ Quiet
  /\ page = "admin"
  /\ r \in net /\ r.url = "/announcements" /\ r.method = "GET"
  /\ announcements' = Fetched(announcements, outcome, annDb, ErrorList)
  /\ notice' = LoadNotice(outcome, "Error fetching announcements")
  /\ net' = net \ {r}
  /\ op' = Op("fetchAnnouncements", Null, outcome = "ok")
  /\ UNCHANGED << page, lastFetch, mounted, hasToken, route, coursesVars, stats, title,
                  message, submitting, annEditId, dialogOpen, abandoned,
                  studentLoading, muts, edits, db, annDb >>

\* The Dialog keeps its own open state; the page passes it no handler.
DialogTrigger ==
  /\ Quiet
  /\ AdminReady /\ ~dialogOpen
  /\ dialogOpen' = TRUE
  /\ op' = Silent
  /\ notice' = NoNotice
  /\ UNCHANGED << page, lastFetch, mounted, hasToken, route, coursesVars, stats,
                  announcements, title, message, submitting, annEditId,
                  abandoned, studentLoading, net, muts, edits, db, annDb >>

\* Escape, the overlay or the close button: nothing of the page runs.
DialogDismiss ==
  /\ Quiet
  /\ AdminReady /\ dialogOpen
  /\ dialogOpen' = FALSE
  /\ abandoned' = (abandoned \/ Truthy(annEditId))
  /\ op' = Op("DialogDismiss", annEditId, FALSE)
  /\ notice' = NoNotice
  /\ UNCHANGED << page, lastFetch, mounted, hasToken, route, coursesVars, stats,
                  announcements, title, message, submitting, annEditId,
                  studentLoading, net, muts, edits, db, annDb >>

\* The pencil button of a listed announcement.
EditClick(a) ==
  /\ Quiet
  /\ AdminReady /\ ~dialogOpen
  /\ a \in SeqToSet(announcements)
  /\ title' = a.title
  /\ message' = a.message
  /\ annEditId' = a._id
  /\ abandoned' = FALSE
  /\ op' = Op("EditClick", a._id, TRUE)
  /\ notice' = NoNotice
  /\ UNCHANGED << page, lastFetch, mounted, hasToken, route, coursesVars, stats,
                  announcements, submitting, dialogOpen, studentLoading, net,
                  muts, edits, db, annDb >>

AnnTitleTexts == {"", "Holiday"}
AnnMessageTexts == {"", "No classes"}

setTitle(v) ==
  /\ Quiet
  /\ AdminReady /\ dialogOpen
  /\ v # title
  /\ edits < MaxEdits
  /\ edits' = edits + 1
  /\ title' = v
  /\ op' = Silent
  /\ notice' = NoNotice
  /\ UNCHANGED << page, lastFetch, mounted, hasToken, route, coursesVars, stats,
                  announcements, message, submitting, annEditId, dialogOpen,
                  abandoned, studentLoading, net, muts, db, annDb >>

setMessage(v) ==
  /\ Quiet
  /\ AdminReady /\ dialogOpen
  /\ v # message
  /\ edits < MaxEdits
  /\ edits' = edits + 1
  /\ message' = v
  /\ op' = Silent
  /\ notice' = NoNotice
  /\ UNCHANGED << page, lastFetch, mounted, hasToken, route, coursesVars, stats,
                  announcements, title, submitting, annEditId, dialogOpen,
                  abandoned, studentLoading, net, muts, db, annDb >>

\* A check of the title alone.
TitleOnlyRejected(ttl, msg) == ttl = ""

\* `if (!title || !message) return alert("Fill in all fields.");`
AnnSubmitRejected(ttl, msg) == ttl = "" \/ msg = ""

\* method and endpoint of the announcement submit.
AnnSubmitRequest(n, id, ttl, msg) ==
  [Req(n, IF Truthy(id) THEN "PUT" ELSE "POST", "/announcements",
       IF Truthy(id) THEN id ELSE Null, EmptyBody)
   EXCEPT !.body.title = ttl, !.body.message = msg]

\* A Submit button that is never disabled.
AlwaysEnabled == TRUE

\* `disabled={submitting}` of the Submit button.
SubmitEnabled == ~submitting

\* handleSubmit of the dashboard up to its await; the Submit button is part
\* of the dialog and disabled while submitting.
AdminHandleSubmit ==
  /\ Quiet
  /\ AdminReady /\ dialogOpen /\ SubmitEnabled
  /\ IF AnnSubmitRejected(title, message)
     THEN /\ notice' = Notice("alert", "Fill in all fields.")
          /\ op' = Op("AdminHandleSubmit", annEditId, FALSE)
          /\ UNCHANGED << submitting, net, muts >>
     ELSE /\ muts < MaxAnnMut
          /\ submitting' = TRUE
          /\ net' = net \cup {AnnSubmitRequest(muts + 1, annEditId, title, message)}
          /\ muts' = muts + 1
          /\ notice' = NoNotice
          /\ op' = Op("AdminHandleSubmit", annEditId, TRUE)
  /\ UNCHANGED << page, lastFetch, mounted, hasToken, route, coursesVars, stats,
                  announcements, title, message, annEditId, dialogOpen,
                  abandoned, studentLoading, edits, db, annDb >>

NewAnnouncement(r) ==
  [_id |-> "n" \o ToString(r.n), title |-> r.body.title,
   message |-> r.body.message]

AnnApplied(coll, r) ==
  CASE r.method = "POST" -> Append(coll, NewAnnouncement(r))
    [] r.method = "PUT" ->
         [i \in 1..Len(coll) |->
            IF coll[i]._id = r.id THEN [NewAnnouncement(r) EXCEPT !._id = r.id]
            ELSE coll[i]]
    [] r.method = "DELETE" -> SelectSeq(coll, LAMBDA a : a._id # r.id)
    [] OTHER -> coll

\* location.reload(): the document is discarded with the requests it had in
\* flight, and the page is constructed and mounted anew.
Reloaded ==
  /\ mounted' = FALSE
  /\ stats' = Stats0
  /\ announcements' = << >>
  /\ title' = "" /\ message' = "" /\ annEditId' = Null
  /\ submitting' = FALSE
  /\ dialogOpen' = FALSE
  /\ abandoned' = FALSE
  /\ net' = {}

\* `if (res.ok) {...} else {...}` of the submit, with the catch block: the
\* branch taken for each way the fetch settles.
SubmitBranch(outcome) ==
  CASE outcome = "ok" -> "success"
    [] outcome = "http" -> "refused"
    [] OTHER -> "caught"

\* A handler without the finally block.
SubmitFinallyMissing == UNCHANGED submitting

\* `finally { setSubmitting(false); }`
SubmitFinally == submitting' = FALSE

\* handleSubmit of the dashboard after its awaits.  errText is the error
\* field of a refusal's body ("" when it has none).
AdminHandleSubmitSettled(r, outcome, errText) ==
  /\ Quiet
  /\ page = "admin"
  /\ r \in net /\ r.url = "/announcements" /\ r.method \in {"POST", "PUT"}
  /\ outcome = "ok" => Accepts(annDb, r)
  /\ annDb' = IF outcome = "ok" THEN AnnApplied(annDb, r) ELSE annDb
  /\ CASE SubmitBranch(outcome) = "success" ->
            /\ notice' = Notice("alert", IF r.method = "PUT" THEN "Announcement updated"
                                          ELSE "Announcement created")
            /\ Reloaded
       [] SubmitBranch(outcome) = "refused" ->
            /\ notice' = Notice("alert", IF errText # "" THEN errText ELSE "Failed to submit")
            /\ SubmitFinally
            /\ net' = net \ {r}
            /\ UNCHANGED << mounted, stats, announcements, title, message,
                            annEditId, dialogOpen, abandoned >>
       [] OTHER ->
            /\ notice' = Notice("alert", "Server error")
            /\ SubmitFinally
            /\ net' = net \ {r}
            /\ UNCHANGED << mounted, stats, announcements, title, message,
                            annEditId, dialogOpen, abandoned >>
  /\ op' = Op("AdminHandleSubmitSettled", r.id, outcome = "ok")
  /\ UNCHANGED << page, lastFetch, hasToken, route, coursesVars, studentLoading, muts,
                  edits, db >>

\* `if (!confirmed) return;`
AnnDeleteProceeds(confirmed) == confirmed

\* handleDelete of the dashboard up to its await.
AdminHandleDelete(id, confirmed) ==
  /\ Quiet
  /\ AdminReady /\ ~dialogOpen
  /\ id \in Ids(announcements)
  /\ IF AnnDeleteProceeds(confirmed)
     THEN /\ muts < MaxAnnMut
          /\ net' = net \cup {Req(muts + 1, "DELETE", "/announcements", id, EmptyBody)}
          /\ muts' = muts + 1
     ELSE UNCHANGED << net, muts >>
  /\ op' = Op("AdminHandleDelete", id, confirmed)
  /\ notice' = NoNotice
  /\ UNCHANGED << page, lastFetch, mounted, hasToken, route, coursesVars, annVars, edits,
                  db, annDb >>

\* `await fetch(..., { method: "DELETE" }); alert("Deleted"); location.reload();`
\* inside try/catch: the branch taken for each way the fetch settles.  The
\* answer is not looked at.
DeleteBranch(outcome) == IF outcome = "throw" THEN "caught" ELSE "success"

AdminHandleDeleteSettled(r, outcome) ==
  /\ Quiet
  /\ page = "admin"
  /\ r \in net /\ r.url = "/announcements" /\ r.method = "DELETE"
  /\ outcome = "ok" => Accepts(annDb, r)
  /\ annDb' = IF outcome = "ok" THEN AnnApplied(annDb, r) ELSE annDb
  /\ IF DeleteBranch(outcome) = "success"
     THEN /\ notice' = Notice("alert", "Deleted")
          /\ Reloaded
     ELSE /\ notice' = Notice("alert", "Delete failed")
          /\ net' = net \ {r}
          /\ UNCHANGED << mounted, stats, announcements, title, message,
                          submitting, annEditId, dialogOpen, abandoned >>
  /\ op' = Op("AdminHandleDeleteSettled", r.id, outcome = "ok")
  /\ UNCHANGED << page, lastFetch, hasToken, route, coursesVars, studentLoading, muts,
                  edits, db >>

\* ------------------------------------------------------ StudentDashboard
\* The mount effect: redirect without a token, fetchAnnouncements() with one.
StudentMount ==
  /\ Quiet
  /\ page = "student" /\ ~mounted
  /\ mounted' = TRUE
  /\ route' = Redirect
  /\ net' = IF hasToken
            THEN net \cup {Req(1, "GET", "/announcements", Null, EmptyBody)}
            ELSE net
  /\ op' = Silent
  /\ notice' = NoNotice
  /\ UNCHANGED << page, lastFetch, hasToken, coursesVars, annVars, muts, edits, db, annDb >>

\* fetchAnnouncements of the student dashboard after its awaits.
StudentFetchAnnouncementsSettled(r, outcome) ==
  /\ Quiet
  /\ page = "student"
  /\ r \in net /\ r.url = "/announcements" /\ r.method = "GET"
  /\ announcements' = Fetched(announcements, outcome, annDb, ErrorList)
  /\ notice' = LoadNotice(outcome, "Error fetching announcements:")
  /\ studentLoading' = FALSE
  /\ net' = net \ {r}
  /\ op' = Op("fetchAnnouncements", Null, outcome = "ok")
  /\ UNCHANGED << page, lastFetch, mounted, hasToken, route, coursesVars, stats, title,
                  message, submitting, annEditId, dialogOpen, abandoned, muts,
                  edits, db, annDb >>

\* The toast expires or the alert box is dismissed: nothing of the page
\* changes.
NoticeGone ==
  /\ ~Quiet
  /\ op' = Silent
  /\ notice' = NoNotice
  /\ UNCHANGED << page, lastFetch, mounted, hasToken, route, coursesVars, annVars, net,
                  muts, edits, db, annDb >>

\* ------------------------------------------------------------ behaviours
Init ==
  /\ page \in Pages
  /\ mounted = FALSE
  /\ hasToken \in (IF page = "courses" THEN {TRUE} ELSE BOOLEAN)
  /\ route = page
  /\ courses = << >> /\ lecturers = << >> /\ departments = << >>
  /\ isModalOpen = FALSE /\ loading = FALSE
  /\ courseCode = "" /\ courseTitle = "" /\ creditUnits = Num(0)
  /\ lecturer = StrV("") /\ level = StrV("") /\ semester = ""
  /\ department = StrV("") /\ editId = Null
  /\ stats = Stats0
  /\ announcements = << >> /\ title = "" /\ message = ""
  /\ submitting = FALSE /\ annEditId = Null /\ dialogOpen = FALSE
  /\ abandoned = FALSE
  /\ studentLoading = TRUE
  /\ net = {} /\ muts = 0 /\ edits = 0
  /\ db = CoursesDB0 /\ annDb = AnnouncementsDB0
  /\ lastFetch = Pending
  /\ op = Silent
  /\ notice = NoNotice

Next ==
  \/ CoursesMount
  \/ \E c \in SeqToSet(courses) \cup {NoCourse} : openModal(c)
  \/ Cancel
  \/ \E v \in CodeTexts : setCourseCode(v)
  \/ \E v \in TitleTexts : setCourseTitle(v)
  \/ \E t \in CreditTexts : setCreditUnits(t)
  \/ \E v \in LecturerOptions : setLecturer(v)
  \/ \E v \in LevelOptions : setLevel(v)
  \/ \E v \in SemesterOptions : setSemester(v)
  \/ \E v \in DepartmentOptions : setDepartment(v)
  \/ handleSubmit
  \/ \E r \in net : handleSubmitResolved(r)
  \/ \E r \in net : handleSubmitRejected(r)
  \/ \E id \in Ids(courses), confirmed \in BOOLEAN : handleDelete(id, confirmed)
  \/ \E r \in net : handleDeleteResolved(r)
  \/ \E r \in net : handleDeleteRejected(r)
  \/ \E r \in net, ok \in BOOLEAN : \E data \in r.data : fetchCoursesSettled(r, ok, data)
  \/ \E r \in net, ok \in BOOLEAN : fetchLecturersSettled(r, ok)
  \/ \E r \in net, ok \in BOOLEAN : fetchDepartmentsSettled(r, ok)
  \/ AdminMount
  \/ \E r \in net, outcome \in Outcomes : fetchStatsSettled(r, outcome)
  \/ \E r \in net, outcome \in Outcomes : fetchAnnouncementsSettled(r, outcome)
  \/ DialogTrigger
  \/ DialogDismiss
  \/ \E a \in SeqToSet(announcements) : EditClick(a)
  \/ \E v \in AnnTitleTexts : setTitle(v)
  \/ \E v \in AnnMessageTexts : setMessage(v)
  \/ AdminHandleSubmit
  \/ \E r \in net, outcome \in Outcomes, errText \in {"", BackendError} :
       AdminHandleSubmitSettled(r, outcome, errText)
  \/ \E id \in Ids(announcements), confirmed \in BOOLEAN :
       AdminHandleDelete(id, confirmed)
  \/ \E r \in net, outcome \in Outcomes : AdminHandleDeleteSettled(r, outcome)
  \/ StudentMount
  \/ NoticeGone
  \/ \E r \in net, outcome \in Outcomes : StudentFetchAnnouncementsSettled(r, outcome)

Spec == Init /\ [][Next]_vars

\* The dashboard alone, with every request in flight settled in the end: a
\* fetch() resolves or rejects.  A toast or alert on display goes away, and
\* the continuation of a request runs once it has.
AdminInit == Init /\ page = "admin"

AdminSettle ==
  \/ \E r \in net, outcome \in Outcomes, errText \in {"", BackendError} :
       AdminHandleSubmitSettled(r, outcome, errText)
  \/ \E r \in net, outcome \in Outcomes : AdminHandleDeleteSettled(r, outcome)
  \/ \E r \in net, outcome \in Outcomes : fetchStatsSettled(r, outcome)
  \/ \E r \in net, outcome \in Outcomes : fetchAnnouncementsSettled(r, outcome)

AdminNext ==
  \/ AdminMount
  \/ DialogTrigger
  \/ DialogDismiss
  \/ \E a \in SeqToSet(announcements) : EditClick(a)
  \/ \E v \in AnnTitleTexts : setTitle(v)
  \/ \E v \in AnnMessageTexts : setMessage(v)
  \/ AdminHandleSubmit
  \/ \E id \in Ids(announcements), confirmed \in BOOLEAN :
       AdminHandleDelete(id, confirmed)
  \/ AdminSettle
  \/ NoticeGone

AdminSpec ==
  /\ AdminInit /\ [][AdminNext]_vars
  /\ WF_vars(NoticeGone)
  /\ SF_vars(AdminSettle)

\* ------------------------------------------------------------- properties
\* The slots of the GET /courses requests among S, and the mutations among S.
CourseGets(S) == {q.n : q \in {x \in S : x.method = "GET" /\ x.url = "/courses"}}
Mutations(S) == {x \in S : x.method \in {"POST", "PUT", "DELETE"}}

DraftCleared ==
  /\ courseCode = "" /\ courseTitle = "" /\ creditUnits = Num(0)
  /\ lecturer = StrV("") /\ level = StrV("") /\ semester = ""
  /\ department = StrV("") /\ editId = Null

ValidCourseDraft == courseCode # "" /\ courseTitle # "" /\ ~isNaN(creditUnits)
ValidAnnDraft == title # "" /\ message # ""

\* C1: on the course page a handleSubmit in create mode (editId null) with a
\* course code, a course title and a numeric creditUnits issues exactly one
\* request, a POST /courses carrying the draft, and no PUT; when a create
\* succeeds, the draft is cleared, editId is null, the modal is closed, and
\* exactly one GET /courses is issued (and no other request).
C1_CreateSubmit ==
  [][ /\ (op'.name = "handleSubmit" /\ ~Truthy(editId) /\ ValidCourseDraft)
         => \E r \in net' :
              /\ r \notin net /\ net' = net \cup {r}
              /\ r.method = "POST" /\ r.url = "/courses" /\ r.body = courseData
      /\ (op'.name = "handleSubmitSettled" /\ op'.flag /\ ~Truthy(op'.id))
         => /\ DraftCleared' /\ ~isModalOpen'
            /\ Cardinality(CourseGets(net') \ CourseGets(net)) = 1
            /\ Mutations(net') \subseteq Mutations(net)
    ]_vars

\* A create has succeeded: the new course is in the backend, the modal is
\* closed with its draft cleared, and the reload is in flight.
C1_Witness ==
  /\ op.name = "handleSubmitSettled" /\ op.flag /\ op.id = Null
  /\ Len(db) = Len(CoursesDB0) + 1
  /\ ~isModalOpen /\ DraftCleared
  /\ CourseGets(net) # {}

\* What the cleared control of each required field leaves in the draft.
AnyRequiredEmpty ==
  \/ courseCode = "" \/ courseTitle = "" \/ creditUnits = Number("")
  \/ lecturer = StrV("") \/ level = StrV("") \/ semester = ""
  \/ department = StrV("")

\* C2: on the course page a handleSubmit while any of the required fields
\* (courseCode, courseTitle, creditUnits, lecturer, level, semester,
\* department) is empty issues no request, shows a validation notification
\* and leaves the draft, editId and the open modal as they are.
C2_Original ==
  [][ (op'.name = "handleSubmit" /\ AnyRequiredEmpty)
      => /\ net' = net
         /\ notice'.via \in UserFacing
         /\ UNCHANGED << formVars, isModalOpen >>
    ]_vars

\* C3: on the dashboard a handleSubmit while title or message is empty issues
\* no request, shows the validation alert, leaves submitting false, and leaves
\* title, message and editId as they are.
C3_AnnouncementValidation ==
  [][ (op'.name = "AdminHandleSubmit" /\ ~ValidAnnDraft)
      => /\ net' = net
         /\ notice' = Notice("alert", "Fill in all fields.")
         /\ ~submitting /\ ~submitting'
         /\ UNCHANGED << title, message, annEditId >>
    ]_vars

\* A submit of an edited announcement whose message was cleared has been turned
\* down.
C3_Witness ==
  /\ op.name = "AdminHandleSubmit" /\ ~op.flag
  /\ title # "" /\ message = "" /\ Truthy(annEditId)
  /\ notice.via = "alert"
  /\ ~submitting /\ net = {}

\* C4: on both pages a delete whose prompt is declined issues no request and
\* changes nothing of the page; and every DELETE request issued is issued by
\* the delete handler, for the id its prompt was raised for, the prompt
\* having been confirmed.
C4_DeleteOnlyConfirmed ==
  [][ /\ (op'.name \in {"handleDelete", "AdminHandleDelete"} /\ ~op'.flag)
         => UNCHANGED << net, page, mounted, hasToken, route, coursesVars,
                         annVars >>
      /\ \A r \in net' \ net :
           r.method = "DELETE"
           => /\ op'.name = (IF page = "courses" THEN "handleDelete"
                             ELSE "AdminHandleDelete")
              /\ op'.flag /\ op'.id = r.id
    ]_vars

\* A delete of a listed course has been declined while nothing was in flight.
C4_Witness ==
  /\ op.name = "handleDelete" /\ ~op.flag /\ op.id \in Ids(courses)
  /\ net = {}

AnnSuccessTexts == {"Announcement updated", "Announcement created", "Deleted"}

\* C6: on the dashboard, when a create, update or delete request fails, by a
\* network exception or by a non-success status, the displayed announcements
\* are left as they are, the page is not reloaded, and a failure alert (no
\* success alert) is shown.
C6_Original ==
  [][ (op'.name \in {"AdminHandleSubmitSettled", "AdminHandleDeleteSettled"}
       /\ ~op'.flag)
      => /\ announcements' = announcements
         /\ mounted' = mounted
         /\ notice'.via = "alert" /\ notice'.msg \notin AnnSuccessTexts
    ]_vars

\* C7: the lecturer, level and department carried by every create or update
\* request of the course page are identifier strings, never objects.
C7_RawIdentifiers ==
  \A r \in net :
    (r.url = "/courses" /\ r.method \in {"POST", "PUT"})
    => /\ r.body.lecturer.typeof = "string"
       /\ r.body.level.typeof = "string"
       /\ r.body.department.typeof = "string"

\* An update of the record received with populated lecturer and department is
\* in flight, carrying their identifiers.
C7_Witness ==
  \E r \in net :
    /\ r.method = "PUT" /\ r.id = CoursesDB0[1]._id
    /\ r.body.lecturer = StrV(CoursesDB0[1].lecturer._id)
    /\ r.body.department = StrV(CoursesDB0[1].department._id)
    /\ r.body.level = CoursesDB0[1].level

\* The identifier a foreign-key field stands for: the populated object's _id,
\* or the string itself.
RefId(f) == IF f.typeof = "object" THEN StrV(f._id) ELSE f

\* C8: openModal(course) sets editId to the course's _id, sets each of
\* lecturer, level and department to the _id of the populated object, or to
\* the field itself when it is a string, and copies courseCode, courseTitle,
\* creditUnits and semester.
C8_OpenModalNormalizes ==
  [][ \A c \in SeqToSet(courses) :
        (op'.name = "openModal" /\ op'.flag /\ op'.id = c._id)
        => /\ editId' = c._id /\ isModalOpen'
           /\ lecturer' = RefId(c.lecturer)
           /\ level' = RefId(c.level)
           /\ department' = RefId(c.department)
           /\ courseCode' = c.courseCode /\ courseTitle' = c.courseTitle
           /\ creditUnits' = c.creditUnits /\ semester' = c.semester
    ]_vars

\* The record with a populated lecturer and a string level has been opened.
C8_Witness ==
  /\ op.name = "openModal" /\ op.flag
  /\ \E c \in SeqToSet(courses) :
       /\ c._id = op.id /\ editId = c._id
       /\ c.lecturer.typeof = "object" /\ lecturer = StrV(c.lecturer._id)
       /\ c.level.typeof = "string" /\ level = c.level

\* C9: on both pages a valid submit issues exactly one request: a PUT to the
\* editing identifier when one is set, a POST otherwise; cancelling the course
\* modal leaves no editing identifier; and a submit on the dashboard after an
\* announcement was picked for edit and the dialog dismissed is a POST.
C9_Original ==
  [][ /\ (op'.name = "handleSubmit" /\ ValidCourseDraft)
         => \E r \in net' :
              /\ r \notin net /\ net' = net \cup {r}
              /\ IF Truthy(editId) THEN r.method = "PUT" /\ r.id = editId
                 ELSE r.method = "POST"
      /\ (op'.name = "AdminHandleSubmit" /\ ValidAnnDraft)
         => \E r \in net' :
              /\ r \notin net /\ net' = net \cup {r}
              /\ IF Truthy(annEditId) THEN r.method = "PUT" /\ r.id = annEditId
                 ELSE r.method = "POST"
      /\ op'.name = "Cancel" => editId' = Null
      /\ (op'.name = "AdminHandleSubmit" /\ ValidAnnDraft /\ abandoned)
         => \A r \in net' \ net : r.method = "POST"
    ]_vars

\* C10: every load that succeeds replaces the list it loads with the fetched
\* collection; every load that fails leaves the list as it is and shows the
\* user a notification.
C10_Original ==
  [][ /\ op'.name = "fetchCourses"
         => IF op'.flag
            THEN \E r \in net \ net' : courses' \in r.data
            ELSE courses' = courses /\ notice'.via \in UserFacing
      /\ op'.name = "fetchLecturers"
         => IF op'.flag THEN lecturers' = LecturersDB
            ELSE lecturers' = lecturers /\ notice'.via \in UserFacing
      /\ op'.name = "fetchDepartments"
         => IF op'.flag THEN departments' = DepartmentsDB
            ELSE departments' = departments /\ notice'.via \in UserFacing
      /\ op'.name = "fetchAnnouncements"
         => IF op'.flag THEN announcements' = annDb
            ELSE announcements' = announcements /\ notice'.via \in UserFacing
    ]_vars


\* The dashboard's draft as construction leaves it.
AnnDraftCleared == title = "" /\ message = "" /\ annEditId = Null

\* C11: on both pages the form state is cleared by a successful submit and by
\* cancelling or dismissing the form: right after either, every draft field
\* is empty/zero and the editing identifier is null.
C11_Original ==
  [][ /\ (op'.name = "handleSubmitSettled" /\ op'.flag) => DraftCleared'
      /\ op'.name = "Cancel" => DraftCleared'
      /\ (op'.name = "AdminHandleSubmitSettled" /\ op'.flag) => AnnDraftCleared'
      /\ op'.name = "DialogDismiss" => AnnDraftCleared'
    ]_vars

\* The creates in flight among S that carry the draft as it stands.
SameDraftPosts(S) ==
  {r \in S : r.url = "/courses" /\ r.method = "POST" /\ r.body = courseData}

\* C12: submissions of the course page are not serialized: a handleSubmit of a
\* valid create draft whose POST is still in flight issues one more POST of
\* the same draft, and every create that succeeds appends one record to the
\* backend collection, so that two records come of one draft.
C12_DuplicateCreate ==
  [][ /\ (op'.name = "handleSubmit" /\ ~Truthy(editId) /\ ValidCourseDraft
          /\ SameDraftPosts(net) # {})
         => Cardinality(SameDraftPosts(net')) = Cardinality(SameDraftPosts(net)) + 1
      /\ (op'.name = "handleSubmitSettled" /\ op'.flag /\ ~Truthy(op'.id))
         => /\ Len(db') = Len(db) + 1
            /\ SubSeq(db', 1, Len(db)) = db
    ]_vars

\* The backend holds two records, created after the page mounted, that differ
\* in nothing but their _id.
C12_Witness ==
  \E i, j \in 1..Len(db) :
    /\ i < j
    /\ db[i]._id \notin Ids(CoursesDB0) /\ db[j]._id \notin Ids(CoursesDB0)
    /\ [db[i] EXCEPT !._id = ""] = [db[j] EXCEPT !._id = ""]

\* The announcement creates and updates in flight.
AnnSubmits == {r \in net : r.url = "/announcements" /\ r.method \in {"POST", "PUT"}}

\* C13: on the dashboard submitting is true exactly while a create or update
\* request is in flight, and at most one such request is in flight.
C13_OneSubmitInFlight ==
  page = "admin" => /\ submitting <=> AnnSubmits # {}
                    /\ Cardinality(AnnSubmits) <= 1

\* A second submit is in flight, alone, after the first one has settled.
C13_Witness ==
  /\ page = "admin" /\ muts = 2 /\ submitting
  /\ Cardinality(AnnSubmits) = 1 /\ \A r \in AnnSubmits : r.n = 2

\* C14: on the dashboard every submit that sets submitting returns to idle,
\* given that its request settles: however the request ends, submitting is
\* false again and the Submit button enabled.
C14_SubmitReturnsToIdle == submitting ~> (~submitting /\ SubmitEnabled)

\* A submit has been refused or has thrown, and submitting is false again with
\* the dialog still open.
C14_Witness ==
  /\ op.name = "AdminHandleSubmitSettled" /\ ~op.flag
  /\ ~submitting /\ dialogOpen /\ AnnSubmits = {}

\* The GETs in flight among S on url.
GetsOn(S, url) == {r \in S : r.method = "GET" /\ r.url = url}

\* C15: a dashboard that mounts without a token redirects to the login
\* route; the student dashboard fetches its announcements only with a token
\* and without one never has a request in flight; the admin dashboard fetches
\* its stats and its announcements with or without a token.
C15_TokenGate ==
  [][ /\ (page \in {"admin", "student"} /\ ~mounted /\ mounted')
         => /\ route' = (IF hasToken THEN route ELSE "/login")
            /\ page = "student"
               => /\ GetsOn(net', "/announcements") # {} <=> hasToken
                  /\ Cardinality(net') <= 1
            /\ page = "admin"
               => /\ GetsOn(net', "/admin/stats") # {}
                  /\ GetsOn(net', "/announcements") # {}
      /\ (page = "student" /\ ~hasToken) => net' = {}
    ]_vars

\* The admin dashboard has mounted without a token: it is redirected, and both
\* of its fetches are in flight.
C15_Witness ==
  /\ page = "admin" /\ ~hasToken /\ mounted /\ route = "/login"
  /\ GetsOn(net, "/admin/stats") # {} /\ GetsOn(net, "/announcements") # {}

\* C16: on the course page, whenever the modal is closed, editId is null and
\* every draft field is empty/zero.
C16_ClosedModalEmptyDraft ==
  (page = "courses" /\ ~isModalOpen) => DraftCleared

\* The modal has been closed on a record that was being edited.
C16_Witness ==
  /\ op.name = "Cancel" /\ op.id \in Ids(courses)
  /\ ~isModalOpen /\ DraftCleared

\* C18: on the course page loading is true in every state with a GET /courses
\* in flight, overlapping reloads included, and false in every state without
\* one.
C18_Original ==
  (page = "courses" /\ mounted) => (loading <=> CourseGets(net) # {})

\* C17: on the course page, when reloads overlap the response to an earlier
\* GET /courses never overwrites the list a later issued one has delivered,
\* and once no request is in flight and the last issued GET /courses has
\* succeeded, the displayed list is the collection returned to that request.
C17_Original ==
  /\ [](page = "courses" /\ net = {} /\ lastFetch.settled /\ lastFetch.ok
          => courses = lastFetch.data)
  /\ [][ op'.name = "fetchCourses" /\ lastFetch.settled /\ lastFetch.ok
           => courses' = courses ]_vars

====
